---- MODULE Spec2Model ----
(***************************************************************************)
(* Request-processing core of the chain node API: the batch create         *)
(* handlers (CreateAccounts, CreateAssets, CreateControlPrograms) and the  *)
(* cursor-paginated list handlers.                                         *)
(*                                                                         *)
(* SpecBatch models one batch call: the calling goroutine allocates the    *)
(* response slice, adds N to the WaitGroup, launches one goroutine per     *)
(* index and waits; every goroutine runs its body and then its deferred    *)
(* calls in LIFO order.  SpecList models one client paging through a list  *)
(* operation while writers extend the index.                               *)
(*                                                                         *)
(* A definition named X_suffix next to X is X with a plausible slip; the   *)
(* properties below tell the two apart.                                    *)
(***************************************************************************)
EXTENDS Integers, Sequences, FiniteSets, TLC

\* Largest batch length N explored.
MaxBatch == 3

VARIABLES
    op,         \* the batch handler being called
    requests,   \* in.Requests
    responses,  \* the responses slice shared by all goroutines
    wg,         \* the sync.WaitGroup counter
    mainpc,     \* position of the calling goroutine
    loopi,      \* the loop variable i of the calling goroutine
    arg,        \* arg[u]: the value of i passed to goroutine u
    pc,         \* pc[u]: position of goroutine u
    dstack,     \* dstack[u]: deferred calls of goroutine u, in push order
    panicking,  \* panicking[u]: goroutine u is unwinding a panic
    crashed,    \* the process died of an unrecovered panic
    reterr,     \* the error value of the handler's return
    outcome,    \* history: how the body of goroutine u ended
    writes,     \* history: <<u, slot>> for every write to responses
    overtaken   \* history: a goroutine wrote its slot while one launched
                \* before it had not finished its body

bvars == <<op, requests, responses, wg, mainpc, loopi, arg, pc, dstack,
           panicking, crashed, reterr, outcome, writes, overtaken>>

BatchOps == {"CreateAccounts", "CreateAssets", "CreateControlPrograms"}

\* A JSON document as json.Unmarshal into a map sees it.
Json == {"valid", "malformed"}

\* A slot of the response slice that was never assigned (a nil pointer).
Nil == [kind |-> "nil", token |-> 0, detail |-> ""]

\* &pb.X_Response{Error: protobufErr(detailedErr)}
\* (slip: the error response is never built)
ErrorResponse_unset(detail) == Nil
ErrorResponse(detail) == [kind |-> "error", token |-> 0, detail |-> detail]

\* &pb.X_Response{Account|Asset|ControlProgram: ...}: the payload carries
\* data of the sub-request it was built from.
SuccessResponse(req) == [kind |-> "ok", token |-> req.token, detail |-> req.tags]

\* The sub-requests a caller can put at index i of a batch for each handler.
\* present = FALSE is a nil element of in.Requests.
RequestSet(o, i) ==
    LET base == [token |-> i, present |-> TRUE, tags |-> "valid",
                 definition |-> "valid", type |-> "account", accountId |-> "id"]
    IN  {[base EXCEPT !.present = FALSE]} \cup
        CASE o = "CreateAccounts" ->
                {[base EXCEPT !.tags = t] : t \in Json}
          [] o = "CreateAssets" ->
                {[base EXCEPT !.tags = t, !.definition = d] : t \in Json, d \in Json}
          [] o = "CreateControlPrograms" ->
                {[base EXCEPT !.type = ty, !.accountId = a] :
                    ty \in {"account", "other"}, a \in {"", "id"}}

\* What a call into the domain services (Accounts.Create, Assets.Define,
\* Accounts.FindByAlias, Accounts.CreateControlProgram) can do.
DomainOutcomes == {"ok", "err", "panic"}

BatchStart ==
    /\ op \in BatchOps
    /\ \E n \in 0..MaxBatch :
          /\ requests \in {r \in [1..n -> UNION {RequestSet(op, i) : i \in 1..n}] :
                              \A i \in 1..n : r[i] \in RequestSet(op, i)}
          /\ arg = [u \in 1..n |-> 0]
          /\ pc = [u \in 1..n |-> "idle"]
          /\ dstack = [u \in 1..n |-> <<>>]
          /\ panicking = [u \in 1..n |-> FALSE]
          /\ outcome = [u \in 1..n |-> "none"]
    /\ responses = <<>>
    /\ wg = 0
    /\ mainpc = "start"
    /\ loopi = 0
    /\ crashed = FALSE
    /\ reterr = "none"
    /\ writes = {}
    /\ overtaken = FALSE

N == Len(requests)

\* responses := make([]*Response, len(in.Requests)); wg.Add(len(...))
Alloc ==
    /\ ~crashed
    /\ mainpc = "start"
    /\ responses' = [i \in 1..N |-> Nil]
    /\ wg' = N
    /\ loopi' = 1
    /\ mainpc' = "loop"
    /\ UNCHANGED <<op, requests, arg, pc, dstack, panicking, crashed, reterr,
                   outcome, writes, overtaken>>

\* The deferred calls of a goroutine in the order the defer statements run.
\* (slip: the two defer statements in the other order)
Deferred_swapped(o) ==
    IF o = "CreateControlPrograms"
    THEN <<"wg.Done">>
    ELSE <<"batchRecover", "wg.Done">>
Deferred(o) ==
    IF o = "CreateControlPrograms"
    THEN <<"wg.Done">>
    ELSE <<"wg.Done", "batchRecover">>

\* go func(i int) { ... }(i): goroutine loopi starts with its own copy of i,
\* runs the statements before its body and pushes its deferred calls.
Launch ==
    /\ ~crashed
    /\ mainpc = "loop"
    /\ loopi <= N
    /\ arg' = [arg EXCEPT ![loopi] = loopi]
    /\ pc' = [pc EXCEPT ![loopi] = "body"]
    /\ dstack' = [dstack EXCEPT ![loopi] = Deferred(op)]
    /\ loopi' = loopi + 1
    /\ UNCHANGED <<op, requests, responses, wg, mainpc, panicking, crashed,
                   reterr, outcome, writes, overtaken>>

\* The index goroutine u uses for in.Requests[i] and responses[i].
\* (slip: the closure reads the loop variable instead of its argument)
UnitIndex_captured(u) == IF loopi > Len(requests) THEN Len(requests) ELSE loopi
UnitIndex(u) == arg[u]

\* responses[i] = v, by goroutine u.
WriteSlot(u, v) ==
    /\ responses' = [responses EXCEPT ![UnitIndex(u)] = v]
    /\ writes' = writes \cup {<<u, UnitIndex(u)>>}
    /\ overtaken' = (overtaken \/ \E e \in 1..(u - 1) : pc[e] = "body")

\* The body returns (normally) having assigned v to its slot.
BodyReturns(u, how, v) ==
    /\ WriteSlot(u, v)
    /\ outcome' = [outcome EXCEPT ![u] = how]
    /\ pc' = [pc EXCEPT ![u] = "defers"]
    /\ UNCHANGED panicking

\* The body panics: nothing is assigned, the goroutine starts unwinding.
BodyPanics(u, how) ==
    /\ outcome' = [outcome EXCEPT ![u] = how]
    /\ panicking' = [panicking EXCEPT ![u] = TRUE]
    /\ pc' = [pc EXCEPT ![u] = "defers"]
    /\ UNCHANGED <<responses, writes, overtaken>>

\* The body returns without assigning its slot.
BodySkips(u, how) ==
    /\ outcome' = [outcome EXCEPT ![u] = how]
    /\ pc' = [pc EXCEPT ![u] = "defers"]
    /\ UNCHANGED <<responses, writes, overtaken, panicking>>

\* err == nil after json.Unmarshal(doc, &m)
\* (slip: the error of Unmarshal is ignored)
Unmarshal_lenient(doc) == TRUE
Unmarshal(doc) == doc = "valid"

\* The body of a CreateAccounts goroutine.
CreateAccountsUnit(u) ==
    LET req == requests[UnitIndex(u)] IN
    /\ ~crashed
    /\ op = "CreateAccounts"
    /\ pc[u] = "body"
    /\ IF ~req.present
       THEN BodyPanics(u, "nilreq")
       ELSE IF ~Unmarshal(req.tags)
       THEN BodyReturns(u, "badtags", ErrorResponse("json"))
       ELSE \E d \in DomainOutcomes :
               CASE d = "err"   -> BodyReturns(u, "err", ErrorResponse("domain"))
                 [] d = "panic" -> BodyPanics(u, "panic")
                 [] d = "ok"    -> BodyReturns(u, "ok", SuccessResponse(req))
    /\ UNCHANGED <<op, requests, wg, mainpc, loopi, arg, dstack, crashed, reterr>>

\* The body of a CreateAssets goroutine.
CreateAssetsUnit(u) ==
    LET req == requests[UnitIndex(u)] IN
    /\ ~crashed
    /\ op = "CreateAssets"
    /\ pc[u] = "body"
    /\ IF ~req.present
       THEN BodyPanics(u, "nilreq")
       ELSE IF ~Unmarshal(req.tags)
       THEN BodyReturns(u, "badtags", ErrorResponse("json"))
       ELSE IF ~Unmarshal(req.definition)
       THEN BodyReturns(u, "baddef", ErrorResponse("json"))
       ELSE \E d \in DomainOutcomes :
               CASE d = "err"   -> BodyReturns(u, "err", ErrorResponse("domain"))
                 [] d = "panic" -> BodyPanics(u, "panic")
                 [] d = "ok"    -> BodyReturns(u, "ok", SuccessResponse(req))
    /\ UNCHANGED <<op, requests, wg, mainpc, loopi, arg, dstack, crashed, reterr>>

\* No value: the call did not return, it panicked.
Panicked == [kind |-> "panic", token |-> 0, detail |-> ""]

\* createAccountControlProgram: find is what FindByAlias does (called only
\* for an empty account id), create is what CreateControlProgram does.
\* The result is the response it returns, or Panicked when a call panics.
createAccountControlProgram(req, find, create) ==
    IF req.accountId = "" /\ find = "err" THEN ErrorResponse("domain")
    ELSE IF req.accountId = "" /\ find = "panic" THEN Panicked
    ELSE IF create = "err" THEN ErrorResponse("domain")
    ELSE IF create = "panic" THEN Panicked
    ELSE SuccessResponse(req)

\* The body of a CreateControlPrograms goroutine: the type switch has one
\* case; the getters of a nil sub-request return nil.
CreateControlProgramsUnit(u) ==
    LET req == requests[UnitIndex(u)] IN
    /\ ~crashed
    /\ op = "CreateControlPrograms"
    /\ pc[u] = "body"
    /\ IF ~req.present \/ req.type # "account"
       THEN BodySkips(u, "untyped")
       ELSE \E find \in DomainOutcomes, create \in DomainOutcomes :
               LET r == createAccountControlProgram(req, find, create) IN
               IF r = Panicked
               THEN BodyPanics(u, "panic")
               ELSE BodyReturns(u, IF r.kind = "ok" THEN "ok" ELSE "err", r)
    /\ UNCHANGED <<op, requests, wg, mainpc, loopi, arg, dstack, crashed, reterr>>

\* The function literal passed to batchRecover: it puts the error in the
\* goroutine's slot.
\* (slip: the callback does not assign the slot)
RecoverCallback_dropped(u) == UNCHANGED <<responses, writes, overtaken>>
RecoverCallback(u) == WriteSlot(u, ErrorResponse("panic"))

\* batchRecover(f), run as a deferred call: the guard of the unit. It
\* recovers a panic in flight and hands it to f as an error.
batchRecover(u) ==
    IF panicking[u]
    THEN /\ RecoverCallback(u)
         /\ panicking' = [panicking EXCEPT ![u] = FALSE]
    ELSE UNCHANGED <<responses, writes, overtaken, panicking>>

\* Goroutine u runs its most recently deferred call. After the last one it
\* has exited, or, with a panic still in flight, is about to end the process.
UnitDefer(u) ==
    LET top == dstack[u][Len(dstack[u])] IN
    /\ ~crashed
    /\ pc[u] = "defers"
    /\ dstack[u] # <<>>
    /\ dstack' = [dstack EXCEPT ![u] = SubSeq(dstack[u], 1, Len(dstack[u]) - 1)]
    /\ IF top = "batchRecover"
       THEN batchRecover(u) /\ UNCHANGED wg
       ELSE wg' = wg - 1 /\ UNCHANGED <<responses, writes, overtaken, panicking>>
    /\ pc' = [pc EXCEPT ![u] =
                IF dstack'[u] # <<>> THEN "defers"
                ELSE IF panicking'[u] THEN "fatal" ELSE "done"]
    /\ UNCHANGED <<op, requests, mainpc, loopi, arg, crashed, reterr, outcome>>

\* A panic that no deferred call recovered ends the process.
Crash ==
    /\ ~crashed
    /\ \E u \in 1..N : pc[u] = "fatal"
    /\ crashed' = TRUE
    /\ UNCHANGED <<op, requests, responses, wg, mainpc, loopi, arg, pc, dstack,
                   panicking, reterr, outcome, writes, overtaken>>

\* wg.Wait() returns once the counter is zero; the handler then returns
\* the response that holds the responses slice, and a nil error.
Return ==
    /\ ~crashed
    /\ mainpc = "loop"
    /\ loopi > N
    /\ wg = 0
    /\ mainpc' = "returned"
    /\ reterr' = "nil"
    /\ UNCHANGED <<op, requests, responses, wg, loopi, arg, pc, dstack,
                   panicking, crashed, outcome, writes, overtaken>>

(***************************************************************************)
(* The paginated list handlers.  SpecList models one client that follows   *)
(* the continuations of one list operation while writers extend the index. *)
(* The index, the HSM key list, the filter compiler and the cursor codecs  *)
(* are the services the handlers call; they are modelled from their        *)
(* contracts.  An indexed entity is its position in the query's order,     *)
(* which is also its timestamp.                                            *)
(***************************************************************************)

\* Entities in the index when the traversal starts: 0..InitEntities.
InitEntities == 4

\* Entities writers add while the traversal runs.
MaxWrites == 2

\* The page size of every list handler (the limit it passes to the index).
defGenericPageSize == 2

\* Width in bits of the time fields of a request (uint64 in the source).
TimeBits == 4

\* math.MaxInt64 and the largest uint64, at that width.
MaxInt64 == 2 ^ (TimeBits - 1) - 1
MaxUint64 == 2 ^ TimeBits - 1

VARIABLES
    lop,      \* the list handler the client calls
    index,    \* the entities in the index
    deleted,  \* the keys that DeleteKey has removed from the index
    lreq,     \* the request the client submits next
    lresp,    \* the response to the client's last call
    lpc,      \* position of the ListTxs call in flight
    after,    \* ListTxs: the local variable after (a query.TxAfter)
    deadline, \* ListTxs: the context carries the request's timeout
    calls,    \* the index calls made by the last (or current) handler call
    seen,     \* history: the entities returned on all pages so far
    pages,    \* history: the number of entities on each page
    start,    \* history: the index when the traversal started
    req0,     \* history: the first request of the traversal
    bound,    \* history: the upper time bound the last call passed to the
              \* index (-1 when it passed none)
    waited    \* history: the ListTxs call found nothing to return when it
              \* reached the index in long-poll mode

lvars == <<lop, index, deleted, lreq, lresp, lpc, after, deadline, calls, seen, pages,
           start, req0, bound, waited>>


ListOps == {"ListAccounts", "ListAssets", "ListTxFeeds", "ListTxs",
            "ListUnspentOutputs", "ListKeys"}

\* The cursor-paginated handlers and ListBalances, which returns all its
\* groups in one page.
QueryOps == ListOps \cup {"ListBalances"}

\* A string that holds a cursor, by its format: "" the empty string, "id"
\* the identifier of an entity, "tx" a TxAfter, "out" an OutputsAfter,
\* "junk" any other text.
Str(fmt, a, b) == [fmt |-> fmt, a |-> a, b |-> b]
EmptyStr == Str("", 0, 0)
JunkStr == Str("junk", 0, 0)

\* query.TxAfter: the position of the last transaction returned and the
\* position at which the scan stops.
TxAfter(from, stop) == [ok |-> TRUE, From |-> from, Stop |-> stop]
BadCursor == [ok |-> FALSE, From |-> 0, Stop |-> 0]

\* TxAfter.String and query.DecodeTxAfter
TxAfterString(t) == Str("tx", t.From, t.Stop)
DecodeTxAfter(s) == IF s.fmt = "tx" THEN TxAfter(s.a, s.b) ELSE BadCursor

\* OutputsAfter.String and query.DecodeOutputsAfter
OutputsAfterString(k) == Str("out", k, 0)
DecodeOutputsAfter(s) == IF s.fmt = "out" THEN TxAfter(s.a, 0) ELSE BadCursor

\* The cursor of Accounts, Assets, TxFeeds and the HSM key list is the
\* identifier of the last entity returned; the empty string is the start.
IdString(k) == IF k = 0 THEN EmptyStr ELSE Str("id", k, 0)
DecodeId(s) ==
    IF s.fmt = "" THEN TxAfter(0, 0)
    ELSE IF s.fmt = "id" THEN TxAfter(s.a, 0)
    ELSE BadCursor

\* filter.Parse: err == nil
FilterParses(f) == f # "(("

\* A filter parameter of the request, and protoParams: the value of each
\* parameter by its type, nil (-1) for a parameter with no value set.
FilterParam(kind, val) == [kind |-> kind, val |-> val]
protoParams(params) ==
    [i \in 1..Len(params) |->
        IF params[i].kind = "int64" THEN params[i].val ELSE -1]

\* The parameters are those the compiled filter expects.
ParamsMatch(f, vals) ==
    IF f = "" THEN vals = <<>>
    ELSE Len(vals) = 1 /\ vals[1] \in {0, 1}

\* The predicate: the empty filter holds of every entity, the filter
\* "parity = $1" of the entities whose position has that parity.
Matches(f, vals, k) == f = "" \/ k % 2 = vals[1]

\* The entities of S in the query's order, at most n of them.
RECURSIVE FirstN(_, _)
FirstN(S, n) ==
    IF n = 0 \/ S = {} THEN <<>>
    ELSE LET m == CHOOSE x \in S : \A y \in S : x <= y
         IN  <<m>> \o FirstN(S \ {m}, n - 1)

\* A page of the index: the first limit entities after position from, up
\* to position upto, that the predicate holds of; and the position after
\* which the next page starts.
IndexPage(f, vals, from, upto, limit) ==
    LET rows == {k \in index : k > from /\ k <= upto /\ Matches(f, vals, k)}
        items == FirstN(rows, limit)
    IN  [items |-> items,
         after |-> IF items = <<>> THEN from ELSE items[Len(items)]]

\* Indexer.LookupTxAfter(begin, end): the position that starts the scan at
\* the first transaction of the time range, and the position that ends it.
LookupTxAfter(begin, end) == TxAfter(IF begin = 0 THEN 0 ELSE begin - 1, end)

\* time.ParseDuration: the duration, or -1 for a malformed string.
ParseDuration(t) ==
    CASE t = "1s" -> 1
      [] t = "0s" -> 0
      [] OTHER -> -1

\* The requests a client can start a traversal with.
ListRequest(f, params, aft, st, et, ts, asc, to, al, sb) ==
    [Filter |-> f, FilterParams |-> params, After |-> aft, StartTime |-> st,
     EndTime |-> et, Timestamp |-> ts, AscendingWithLongPoll |-> asc,
     Timeout |-> to, Aliases |-> al, SumBy |-> sb]

\* The grouping fields of a ListBalances request.
SumByInputs ==
    {<<>>, <<"asset_alias", "asset_id">>, <<"asset_id">>, <<"account_id">>,
     <<"asset_id", "bogus field">>}

FilterInputs ==
    {<<"", <<>>>>, <<"((", <<>>>>, <<"parity", <<FilterParam("int64", 0)>>>>,
     <<"parity", <<FilterParam("int64", 1)>>>>,
     <<"parity", <<FilterParam("none", 0)>>>>}

RequestInputs(o) ==
    CASE o \in {"ListAccounts", "ListAssets"} ->
            {ListRequest(fp[1], fp[2], a, 0, 0, 0, FALSE, "", {}, <<>>) :
                fp \in FilterInputs, a \in {EmptyStr, JunkStr}}
      [] o = "ListTxFeeds" ->
            {ListRequest("", <<>>, a, 0, 0, 0, FALSE, "", {}, <<>>) :
                a \in {EmptyStr, JunkStr}}
      [] o = "ListKeys" ->
            {ListRequest("", <<>>, a, 0, 0, 0, FALSE, "", al, <<>>) :
                a \in {EmptyStr, JunkStr}, al \in {{}, {1, 3, 4}}}
      [] o = "ListUnspentOutputs" ->
            {ListRequest(fp[1], fp[2], a, 0, 0, ts, FALSE, "", {}, <<>>) :
                fp \in FilterInputs, a \in {EmptyStr, JunkStr},
                ts \in {0, 3, MaxInt64, MaxInt64 + 1}}
      [] o = "ListTxs" ->
            {ListRequest(fp[1], fp[2], a, st, et, 0, asc, to, {}, <<>>) :
                fp \in FilterInputs, a \in {EmptyStr, JunkStr},
                st \in {0, 2}, et \in {0, 3, MaxInt64, MaxUint64},
                asc \in BOOLEAN, to \in {"", "1s", "soon"}}
      [] o = "ListBalances" ->
            {ListRequest(fp[1], fp[2], EmptyStr, 0, 0, ts, FALSE, "", {}, sb) :
                fp \in FilterInputs, ts \in {0, 3, MaxInt64, MaxInt64 + 1},
                sb \in SumByInputs}

\* No request: the Next of a nil response.
NoRequest == ListRequest("", <<>>, EmptyStr, 0, 0, 0, FALSE, "", {}, <<>>)

NoResponse ==
    [status |-> "none", Items |-> <<>>, LastPage |-> FALSE, Next |-> NoRequest,
     err |-> ""]

ListStart ==
    /\ lop \in QueryOps
    /\ \E m \in 0..InitEntities : index = 1..m
    /\ deleted = {}
    /\ lreq \in RequestInputs(lop)
    /\ lresp = NoResponse
    /\ lpc = "idle"
    /\ after = BadCursor
    /\ deadline = FALSE
    /\ calls = <<>>
    /\ seen = <<>>
    /\ pages = <<>>
    /\ start = index
    /\ req0 = lreq
    /\ bound = -1
    /\ waited = FALSE

\* The client stops at an error and at the last page; a client that tails
\* the transactions goes on after a short page.
Finished ==
    \/ lresp.status = "error"
    \/ lresp.status = "ok" /\ lresp.LastPage /\ ~lreq.AscendingWithLongPoll

\* The handler returns (nil, err).
Fail(err, made) ==
    /\ lresp' = [status |-> "error", Items |-> <<>>, LastPage |-> FALSE,
                 Next |-> NoRequest, err |-> err]
    /\ calls' = made
    /\ UNCHANGED <<lreq, seen, pages>>

\* LastPage: len(result) < limit
\* (slip: <= for <)
LastPage_inclusive(n, limit) == n <= limit
LastPage(n, limit) == n < limit

\* out := in; out.After = after
\* (slip: After is not updated)
Continuation_stale(in, aft) == in
\* (slip: a new request that has only the cursor)
Continuation_fresh(in, aft) == [NoRequest EXCEPT !.After = aft]
Continuation(in, aft) == [in EXCEPT !.After = aft]

\* The handler returns the page, LastPage and the continuation; the client
\* takes the entities and will submit the continuation.
Reply(in, items, aft, made) ==
    /\ lresp' = [status |-> "ok", Items |-> items,
                 LastPage |-> LastPage(Len(items), defGenericPageSize),
                 Next |-> Continuation(in, aft), err |-> ""]
    /\ calls' = made
    /\ lreq' = Continuation(in, aft)
    /\ seen' = seen \o items
    /\ pages' = Append(pages, Len(items))

\* A query of the index with a string cursor (Accounts, Assets, TxFeeds,
\* HSM.ListKeys): it fails on a cursor it cannot read, on parameters the
\* filter does not expect, or for a reason of its own (fails).
StringCursorQuery(in, name, f, vals, upto, fails) ==
    LET c == DecodeId(in.After)
        page == IndexPage(f, vals, c.From, upto, defGenericPageSize)
    IN  IF fails \/ ~c.ok \/ ~ParamsMatch(f, vals)
        THEN Fail("running query", <<name>>)
        ELSE Reply(in, page.items, IdString(page.after), <<name>>)

ListAccounts ==
    /\ lop = "ListAccounts" /\ lpc = "idle" /\ ~Finished
    /\ IF ~FilterParses(lreq.Filter)
       THEN Fail("parsing acc query", <<>>)
       ELSE \E fails \in BOOLEAN :
               StringCursorQuery(lreq, "Accounts", lreq.Filter,
                                 protoParams(lreq.FilterParams), MaxUint64, fails)
    /\ UNCHANGED <<lop, index, deleted, lpc, after, deadline, start, req0, bound, waited>>

ListAssets ==
    /\ lop = "ListAssets" /\ lpc = "idle" /\ ~Finished
    /\ IF ~FilterParses(lreq.Filter)
       THEN Fail("parsing filter", <<>>)
       ELSE \E fails \in BOOLEAN :
               StringCursorQuery(lreq, "Assets", lreq.Filter,
                                 protoParams(lreq.FilterParams), MaxUint64, fails)
    /\ UNCHANGED <<lop, index, deleted, lpc, after, deadline, start, req0, bound, waited>>

ListTxFeeds ==
    /\ lop = "ListTxFeeds" /\ lpc = "idle" /\ ~Finished
    /\ \E fails \in BOOLEAN :
          StringCursorQuery(lreq, "TxFeeds", "", <<>>, MaxUint64, fails)
    /\ UNCHANGED <<lop, index, deleted, lpc, after, deadline, start, req0, bound, waited>>

\* HSM.ListKeys(aliases, after, limit): the keys with one of the aliases,
\* all keys for no alias.
KeysPage(aliases, from, limit) ==
    LET rows == {k \in index : k > from /\ (aliases = {} \/ k \in aliases)}
        items == FirstN(rows, limit)
    IN  [items |-> items,
         after |-> IF items = <<>> THEN from ELSE items[Len(items)]]

ListKeys ==
    /\ lop = "ListKeys" /\ lpc = "idle" /\ ~Finished
    /\ \E fails \in BOOLEAN :
          LET c == DecodeId(lreq.After)
              page == KeysPage(lreq.Aliases, c.From, defGenericPageSize)
          IN  IF fails \/ ~c.ok
              THEN Fail("listing keys", <<"ListKeys">>)
              ELSE Reply(lreq, page.items, IdString(page.after), <<"ListKeys">>)
    /\ UNCHANGED <<lop, index, deleted, lpc, after, deadline, start, req0, bound, waited>>

\* The upper time bound the handler passes on: an unset bound is
\* math.MaxInt64; -1 for a bound beyond it.
\* (slip: an unset bound is passed on as it is)
UpperBound_unset(t) == IF t > MaxInt64 THEN -1 ELSE t
\* (slip: a bound beyond math.MaxInt64 is clamped)
UpperBound_clamped(t) == IF t = 0 \/ t > MaxInt64 THEN MaxInt64 ELSE t
UpperBound(t) ==
    IF t = 0 THEN MaxInt64
    ELSE IF t > MaxInt64 THEN -1
    ELSE t

ListUnspentOutputs ==
    /\ lop = "ListUnspentOutputs" /\ lpc = "idle" /\ ~Finished
    /\ LET in == lreq
           c == IF in.After # EmptyStr
                THEN DecodeOutputsAfter(in.After)
                ELSE TxAfter(0, 0)
           timestampMS == UpperBound(in.Timestamp)
           vals == protoParams(in.FilterParams)
       IN  IF ~FilterParses(in.Filter)
           THEN Fail("parsing filter", <<>>) /\ bound' = -1
           ELSE IF ~c.ok
           THEN Fail("decoding after", <<>>) /\ bound' = -1
           ELSE IF timestampMS = -1
           THEN Fail("timestamp is too large", <<>>) /\ bound' = -1
           ELSE /\ bound' = timestampMS
                /\ \E fails \in BOOLEAN :
                      LET page == IndexPage(in.Filter, vals, c.From, timestampMS,
                                            defGenericPageSize)
                      IN  IF fails \/ ~ParamsMatch(in.Filter, vals)
                          THEN Fail("querying outputs", <<"Outputs">>)
                          ELSE Reply(in, page.items,
                                     OutputsAfterString(page.after), <<"Outputs">>)
    /\ UNCHANGED <<lop, index, deleted, lpc, after, deadline, start, req0, waited>>

\* The fields of an indexed output that a balance can be grouped by: the
\* alias of an asset is a function of its identifier.
AssetId(k) == (k \div 2) % 2
AssetAlias(k) == 10 + AssetId(k)
AccountId(k) == k % 3
Amount(k) == k

\* filter.ParseField: err == nil
FieldParses(field) == field \in {"asset_id", "asset_alias", "account_id"}

FieldValue(field, k) ==
    CASE field = "asset_id" -> AssetId(k)
      [] field = "asset_alias" -> AssetAlias(k)
      [] field = "account_id" -> AccountId(k)

RECURSIVE SumAmounts(_)
SumAmounts(S) ==
    IF S = {} THEN 0
    ELSE LET k == CHOOSE x \in S : TRUE IN Amount(k) + SumAmounts(S \ {k})

\* The groups of Indexer.Balances: the outputs up to the timestamp that
\* the predicate holds of, partitioned by their values of the sumBy fields.
BalanceGroups(f, vals, sumBy, timestampMS) ==
    LET rows == {k \in index : k <= timestampMS /\ Matches(f, vals, k)}
        key(k) == [i \in 1..Len(sumBy) |-> FieldValue(sumBy[i], k)]
    IN  {{j \in rows : key(j) = key(k)} : k \in rows}

\* Indexer.Balances(p, vals, sumBy, timestampMS): one record per group,
\* with the group's values of the sumBy fields and the sum of its amounts,
\* in the order of each group's first output.
Balances(f, vals, sumBy, timestampMS) ==
    LET groups == BalanceGroups(f, vals, sumBy, timestampMS)
        least(g) == CHOOSE x \in g : \A y \in g : x <= y
        order == FirstN({least(g) : g \in groups}, Cardinality(groups))
        group(k) == CHOOSE g \in groups : k \in g
    IN  [i \in 1..Len(order) |->
            [sum_by |-> [j \in 1..Len(sumBy) |->
                            <<sumBy[j], FieldValue(sumBy[j], order[i])>>],
             amount |-> SumAmounts(group(order[i]))]]

\* in.SumBy after the defaulting: an empty SumBy becomes asset_alias,
\* asset_id.
\* (slip: the default is not substituted)
SumByOrDefault_none(sumBy) == sumBy
SumByOrDefault(sumBy) ==
    IF Len(sumBy) = 0 THEN <<"asset_alias", "asset_id">> ELSE sumBy

\* ListBalances: the response has all groups, LastPage true, and as Next the
\* request object, whose SumBy the handler has set.
ListBalances ==
    /\ lop = "ListBalances" /\ lpc = "idle" /\ ~Finished
    /\ LET sumBy == SumByOrDefault(lreq.SumBy)
           in == [lreq EXCEPT !.SumBy = sumBy]
           timestampMS == UpperBound(in.Timestamp)
           vals == protoParams(in.FilterParams)
       IN  IF ~FilterParses(in.Filter)
           THEN Fail("parsing filter", <<>>) /\ bound' = -1
           ELSE IF \E i \in 1..Len(sumBy) : ~FieldParses(sumBy[i])
           THEN Fail("parsing field", <<>>) /\ bound' = -1
           ELSE IF timestampMS = -1
           THEN Fail("timestamp is too large", <<>>) /\ bound' = -1
           ELSE /\ bound' = timestampMS
                /\ \E fails \in BOOLEAN :
                      IF fails \/ ~ParamsMatch(in.Filter, vals)
                      THEN Fail("running balances query", <<"Balances">>)
                      ELSE /\ lresp' = [status |-> "ok",
                                        Items |-> Balances(in.Filter, vals, sumBy,
                                                           timestampMS),
                                        LastPage |-> TRUE, Next |-> in, err |-> ""]
                           /\ calls' = <<"Balances">>
                           /\ lreq' = in
                           /\ UNCHANGED <<seen, pages>>
    /\ UNCHANGED <<lop, index, deleted, lpc, after, deadline, start, req0, waited>>

\* ListTxs: the starting cursor is the decoded After of the request, or
\* for an empty After the result of LookupTxAfter.
\* (slip: the After of the request is ignored)
ResolveAfter_lookup(in, endTimeMS) == LookupTxAfter(in.StartTime, endTimeMS)
\* (slip: the test of in.After is inverted)
ResolveAfter_inverted(in, endTimeMS) ==
    IF in.After = EmptyStr
    THEN DecodeTxAfter(in.After)
    ELSE LookupTxAfter(in.StartTime, endTimeMS)
ResolveAfter(in, endTimeMS) ==
    IF in.After # EmptyStr
    THEN DecodeTxAfter(in.After)
    ELSE LookupTxAfter(in.StartTime, endTimeMS)

\* The index holds no transaction of the query after the cursor c.
NoneToReturn(in, c) ==
    LET vals == protoParams(in.FilterParams)
    IN  /\ ParamsMatch(in.Filter, vals)
        /\ IndexPage(in.Filter, vals, c.From, c.Stop, defGenericPageSize).items = <<>>

\* ListTxs up to the Transactions call: the timeout, the filter, the end
\* time and the starting cursor.
ListTxsBegin ==
    /\ lop = "ListTxs" /\ lpc = "idle" /\ ~Finished
    /\ LET in == lreq
           timeout == IF in.Timeout # "" THEN ParseDuration(in.Timeout) ELSE 0
           endTimeMS == UpperBound(in.EndTime)
           c == ResolveAfter(in, endTimeMS)
           looked == IF in.After # EmptyStr THEN <<>> ELSE <<"LookupTxAfter">>
           passed == IF looked # <<>> THEN endTimeMS ELSE -1
       IN  IF timeout = -1
           THEN /\ Fail("parsing timeout", <<>>)
                /\ bound' = -1 /\ waited' = FALSE
                /\ UNCHANGED <<lpc, after, deadline>>
           ELSE IF ~FilterParses(in.Filter)
           THEN /\ Fail("parsing filter", <<>>)
                /\ bound' = -1 /\ waited' = FALSE
                /\ UNCHANGED <<lpc, after, deadline>>
           ELSE IF endTimeMS = -1
           THEN /\ Fail("end timestamp is too large", <<>>)
                /\ bound' = -1 /\ waited' = FALSE
                /\ UNCHANGED <<lpc, after, deadline>>
           ELSE IF ~c.ok
           THEN /\ Fail("decoding after", <<>>)
                /\ bound' = -1 /\ waited' = FALSE
                /\ UNCHANGED <<lpc, after, deadline>>
           ELSE \E fails \in BOOLEAN :
                   IF fails /\ looked # <<>>
                   THEN /\ Fail("looking up after", looked)
                        /\ bound' = passed /\ waited' = FALSE
                        /\ UNCHANGED <<lpc, after, deadline>>
                   ELSE /\ lpc' = "query"
                        /\ after' = c
                        /\ deadline' = (timeout # 0)
                        /\ calls' = looked
                        /\ bound' = passed
                        /\ waited' = (in.AscendingWithLongPoll /\ NoneToReturn(in, c))
                        /\ UNCHANGED <<lreq, lresp, seen, pages>>
    /\ UNCHANGED <<lop, index, deleted, start, req0>>

\* The flag ListTxs passes to Indexer.Transactions: in.AscendingWithLongPoll
\* (slip: the flag is not passed on)
TailFlag_off(in) == FALSE
TailFlag(in) == in.AscendingWithLongPoll

\* ListTxs from the Transactions call on. In ascending long-poll mode the
\* index does not answer while no transaction matches after the cursor: the
\* call waits until one is there, or its context ends (the request's
\* timeout, the caller's cancellation). fails stands for every error
\* return after the call: the query's own error, a context that ended, rows
\* the handler cannot decode.
ListTxsQuery ==
    /\ lop = "ListTxs" /\ lpc = "query"
    /\ LET in == lreq
           vals == protoParams(in.FilterParams)
           made == Append(calls, "Transactions")
       IN  \E fails \in BOOLEAN :
               IF fails \/ ~ParamsMatch(in.Filter, vals)
               THEN Fail("running tx query", made)
               ELSE LET page == IndexPage(in.Filter, vals, after.From, after.Stop,
                                          defGenericPageSize)
                    IN  /\ TailFlag(in) => page.items # <<>>
                        /\ Reply(in, page.items,
                                 TxAfterString(TxAfter(page.after, after.Stop)), made)
    /\ lpc' = "idle"
    /\ after' = BadCursor
    /\ deadline' = FALSE
    /\ UNCHANGED <<lop, index, deleted, start, req0, bound, waited>>

\* A writer extends the index: the new entity comes last in the order,
\* after every entity there has been.
Extend ==
    /\ Cardinality(index \cup deleted) < Cardinality(start) + MaxWrites
    /\ index' = index \cup {Cardinality(index \cup deleted) + 1}
    /\ UNCHANGED <<lop, deleted, lreq, lresp, lpc, after, deadline, calls, seen,
                   pages, start, req0, bound, waited>>

\* Keys deleted in one run.
MaxDeletes == 2

\* DeleteKey with a key of the right length (any other length returns
\* chainkd.ErrBadKeyLen and changes nothing): h.HSM.DeleteChainKDKey(ctx,
\* key) removes the key from the keys that ListKeys lists.
DeleteKey ==
    /\ lop = "ListKeys"
    /\ Cardinality(deleted) < MaxDeletes
    /\ \E k \in index :
          /\ index' = index \ {k}
          /\ deleted' = deleted \cup {k}
    /\ UNCHANGED <<lop, lreq, lresp, lpc, after, deadline, calls, seen, pages,
                   start, req0, bound, waited>>

(***************************************************************************)
(* The RPC gateway.  Every inbound call runs unaryInterceptor: limit, then *)
(* authRPC, then the handler of the method called.  The limiter and the    *)
(* authentication cache are shared by all calls; calls run concurrently    *)
(* and interleave between these steps.  The bucket limiter and authRPC     *)
(* are not part of this source and are modelled from their contracts.      *)
(***************************************************************************)

\* Inbound calls in one run.
MaxCalls == 2

\* Tokens of a full bucket (the burst of the limiter).
BucketCapacity == 1

VARIABLES
    tokens,    \* r.limiter: the tokens left in the bucket of each address
    tokenMap,  \* r.auth.tokenMap: the credentials authRPC has validated
    rcall,     \* the inbound calls: position, peer, credentials, result
    refilled   \* history: the addresses whose bucket has been refilled

rvars == <<tokens, tokenMap, rcall, refilled>>

\* The addresses of peers; NoPeer for a context that carries no peer.
Peers == {"10.0.0.1:1", "10.0.0.2:1"}
NoPeer == "no peer"

\* The credentials a call presents.
Creds == {"good", "bad"}

\* The methods of the Node and Signer services.
Methods == {"GetBlock", "GetSnapshotInfo", "GetSnapshot", "GetBlockHeight",
            "SubmitTx", "SignBlock"}

\* What a handler can return: GetBlockHeight returns no error.
HandlerOutcomes(method) ==
    IF method = "GetBlockHeight" THEN {"ok"} ELSE {"ok", "err"}

\* A call that has not arrived.
NewCall ==
    [pc |-> "new", peer |-> NoPeer, creds |-> "bad", steps |-> <<>>,
     consulted |-> {}, method |-> "none", resp |-> "none", err |-> "none"]

\* Handler(): a new authentication cache and a limiter with full buckets.
RPCStart ==
    /\ tokens = [p \in Peers |-> BucketCapacity]
    /\ tokenMap = {}
    /\ rcall = [c \in 1..MaxCalls |-> NewCall]
    /\ refilled = {}

\* A call arrives at the interceptor.
Receive(c) ==
    /\ rcall[c].pc = "new"
    /\ c > 1 => rcall[c - 1].pc # "new"
    /\ \E p \in Peers \cup {NoPeer}, cr \in Creds :
          rcall' = [rcall EXCEPT ![c] = [@ EXCEPT !.pc = "received",
                                                  !.peer = p, !.creds = cr]]
    /\ UNCHANGED <<tokens, tokenMap, refilled>>

\* limiter.Allow(addr): the bucket of addr has a token (which it takes).
Allow(addr) == tokens[addr] > 0

\* The key of a peer's bucket: p.Addr.String()
\* (slip: one bucket for all peers)
BucketKey_shared(peer) == "10.0.0.1:1"
BucketKey(peer) == peer

\* limit: errRateLimited for a context without a peer and for a peer whose
\* bucket is empty.
\* (slip: a call without a peer is let through)
limit_open(peer) ==
    IF peer = NoPeer THEN "nil"
    ELSE IF ~Allow(BucketKey(peer)) THEN "errRateLimited" ELSE "nil"
limit(peer) ==
    IF peer = NoPeer THEN "errRateLimited"
    ELSE IF ~Allow(BucketKey(peer)) THEN "errRateLimited" ELSE "nil"

\* if err := r.limit(ctx); err != nil { return nil, err }: where the call
\* goes on.
\* (slip: the error of limit is not returned)
AfterLimit_ignored(err) == "limited"
AfterLimit(err) == IF err # "nil" THEN "done" ELSE "limited"

\* The first step of the interceptor: r.limit(ctx).
InterceptLimit(c) ==
    /\ rcall[c].pc = "received"
    /\ LET p == rcall[c].peer
           err == limit(p)
           next == AfterLimit(err)
       IN  /\ tokens' = IF p # NoPeer /\ Allow(BucketKey(p))
                        THEN [tokens EXCEPT ![BucketKey(p)] = @ - 1]
                        ELSE tokens
           /\ rcall' = [rcall EXCEPT ![c] =
                 [@ EXCEPT !.pc = next,
                           !.steps = Append(@, IF err = "nil" THEN "limit: pass"
                                               ELSE "limit: reject"),
                           !.consulted = IF p # NoPeer THEN {BucketKey(p)}
                                         ELSE {},
                           !.resp = IF next = "done" THEN "nil" ELSE @,
                           !.err = IF next = "done" THEN err ELSE @]]
    /\ UNCHANGED <<tokenMap, refilled>>

\* r.auth.authRPC(ctx): nil for valid credentials.
authRPC(creds) == IF creds = "good" THEN "nil" ELSE "errNotAuthenticated"

\* ctx, err := r.auth.authRPC(ctx); if err != nil { return nil, err }
AfterAuth(err) == IF err # "nil" THEN "done" ELSE "authed"

\* The second step of the interceptor: authRPC, which remembers the
\* credentials it has validated.
InterceptAuth(c) ==
    /\ rcall[c].pc = "limited"
    /\ LET err == authRPC(rcall[c].creds)
           next == AfterAuth(err)
       IN  /\ tokenMap' = tokenMap \cup {rcall[c].creds}
           /\ rcall' = [rcall EXCEPT ![c] =
                 [@ EXCEPT !.pc = next,
                           !.steps = Append(@, IF err = "nil" THEN "auth: pass"
                                               ELSE "auth: reject"),
                           !.resp = IF next = "done" THEN "nil" ELSE @,
                           !.err = IF next = "done" THEN err ELSE @]]
    /\ UNCHANGED <<tokens, refilled>>

\* resp, err := handler(ctx, req); if err != nil { resp =
\* &pb.ErrorResponse{...} }; return resp, nil
\* (slip: the error of the handler is returned as it is)
Translate_raw(resp, err) == [resp |-> "nil", err |-> err]
Translate(resp, err) ==
    IF err # "nil"
    THEN [resp |-> "ErrorResponse", err |-> "nil"]
    ELSE [resp |-> resp, err |-> "nil"]

\* The third step of the interceptor: the handler of the method called, and
\* the return of the interceptor.
InterceptHandler(c) ==
    /\ rcall[c].pc = "authed"
    /\ \E method \in Methods : \E out \in HandlerOutcomes(method) :
          LET resp == IF out = "ok" THEN method ELSE "nil"
              err == IF out = "ok" THEN "nil" ELSE "handler error"
              ret == Translate(resp, err)
          IN  rcall' = [rcall EXCEPT ![c] =
                 [@ EXCEPT !.pc = "done",
                           !.method = method,
                           !.steps = Append(@, IF out = "ok" THEN "handler: ok"
                                               ELSE "handler: error"),
                           !.resp = ret.resp,
                           !.err = ret.err]]
    /\ UNCHANGED <<tokens, tokenMap, refilled>>

\* The limiter refills a bucket as time passes.
Refill(p) ==
    /\ tokens[p] < BucketCapacity
    /\ tokens' = [tokens EXCEPT ![p] = @ + 1]
    /\ refilled' = refilled \cup {p}
    /\ UNCHANGED <<tokenMap, rcall>>

\* Inbound calls in one run that follows the calls as far as r.limit.
MaxLimitCalls == 4

\* Handler(), as in RPCStart, with that many calls to come.
LimitStart ==
    /\ tokens = [p \in Peers |-> BucketCapacity]
    /\ tokenMap = {}
    /\ rcall = [c \in 1..MaxLimitCalls |-> NewCall]
    /\ refilled = {}

\* No gateway is serving.
RPCIdle ==
    /\ tokens = <<>>
    /\ tokenMap = {}
    /\ rcall = <<>>
    /\ refilled = {}

(***************************************************************************)
(* SignBlock and leader delegation.  Each node runs the same handler; the  *)
(* election of the leader is external and changes at any time.  A call on  *)
(* a node that is not leading is forwarded to the node whose address the   *)
(* election has published, where it is a SignBlock call like any other.    *)
(* leader.IsLeading, leaderConn and the signer are not part of this source *)
(* and are modelled from their contracts.                                  *)
(***************************************************************************)

\* SignBlock calls in one run, the forwarded ones included.
MaxSignCalls == 2

VARIABLES
    leader,   \* the node the election has made leader (NoNode: none)
    scall,    \* the SignBlock calls: node, position, request, result
    conns     \* the open forwarding connections: <<call, address>>

svars == <<leader, scall, conns>>

Nodes == {"node1", "node2"}
NoNode == "no node"

\* in.Block: the bytes of a block, or bytes that are no block.
Blocks == {"block", "garbage"}

\* The nil response: return nil, err
NoSignature == [Signature |-> "nil"]

\* A call that has not been made.
NewSign ==
    [pc |-> "new", node |-> NoNode, parent |-> 0, block |-> "garbage",
     saw |-> "unread", reads |-> 0, dialed |-> NoNode, child |-> 0,
     signed |-> FALSE, signedAsLeader |-> FALSE, exit |-> "none",
     resp |-> NoSignature, err |-> "none"]

SignStart ==
    /\ leader \in Nodes \cup {NoNode}
    /\ scall = [c \in 1..MaxSignCalls |-> NewSign]
    /\ conns = {}

\* The next call record that is free.
Free(c) ==
    /\ c \in 1..MaxSignCalls
    /\ scall[c].pc = "new"
    /\ \A d \in 1..(c - 1) : scall[d].pc # "new"

\* A client (a block generator) calls SignBlock on a node.
SignCall(c) ==
    /\ Free(c)
    /\ \E n \in Nodes, b \in Blocks :
          scall' = [scall EXCEPT ![c] = [@ EXCEPT !.pc = "start", !.node = n,
                                                  !.block = b]]
    /\ UNCHANGED <<leader, conns>>

\* leader.IsLeading() on node n
IsLeading(n) == leader = n

\* if !leader.IsLeading() { forward } else { sign locally }
\* (slip: the test is inverted)
Branch_inverted(leading) == IF leading THEN "delegate" ELSE "local"
Branch(leading) == IF ~leading THEN "delegate" ELSE "local"

\* SignBlock reads the flag.
CheckLeading(c) ==
    /\ scall[c].pc = "start"
    /\ LET leading == IsLeading(scall[c].node)
       IN  scall' = [scall EXCEPT ![c] =
              [@ EXCEPT !.pc = Branch(leading),
                        !.saw = IF leading THEN "leading" ELSE "not leading",
                        !.reads = @ + 1]]
    /\ UNCHANGED <<leader, conns>>

\* The signature of a block.
Signature(b) == [Signature |-> b]

\* The leading branch: bc.NewBlockFromBytes(in.Block), then r.Signer(ctx,
\* block), which signs or fails.
SignLocal(c) ==
    /\ scall[c].pc = "local"
    /\ IF scall[c].block # "block"
       THEN scall' = [scall EXCEPT ![c] =
               [@ EXCEPT !.pc = "done", !.exit = "local", !.err = "bad block"]]
       ELSE \E ok \in BOOLEAN :
               scall' = [scall EXCEPT ![c] =
                  [@ EXCEPT !.pc = "done", !.exit = "local",
                            !.signed = TRUE,
                            !.signedAsLeader = IsLeading(scall[c].node),
                            !.resp = IF ok THEN Signature(scall[c].block) ELSE NoSignature,
                            !.err = IF ok THEN "nil" ELSE "signer error"]]
    /\ UNCHANGED <<leader, conns>>

\* leaderConn(ctx, r.DB, r.Addr): the address the election has published,
\* NoNode when there is none or when it is the node's own.
leaderConn(self) == IF leader = self THEN NoNode ELSE leader

\* The other branch: conn, err := leaderConn(...); if err != nil { return
\* nil, err }; defer conn.Close()
OpenConn(c) ==
    /\ scall[c].pc = "delegate"
    /\ \E fails \in BOOLEAN :
          LET addr == leaderConn(scall[c].node)
          IN  IF fails \/ addr = NoNode
              THEN /\ scall' = [scall EXCEPT ![c] =
                         [@ EXCEPT !.pc = "done", !.exit = "dial failed",
                                   !.err = "leader connection"]]
                   /\ UNCHANGED conns
              ELSE /\ scall' = [scall EXCEPT ![c] =
                         [@ EXCEPT !.pc = "forward", !.dialed = addr]]
                   /\ conns' = conns \cup {<<c, addr>>}
    /\ UNCHANGED leader

\* defer conn.Close(): the connections closed when call c returns.
\* (slip: the connection is closed only after a successful call)
ReleasedOnReturn_success(c, err) ==
    IF err = "nil" THEN {x \in conns : x[1] = c} ELSE {}
ReleasedOnReturn(c, err) == {x \in conns : x[1] = c}

\* The request that is sent on: in
ForwardedRequest(b) == b

\* pb.NewSignerClient(conn).SignBlock(ctx, in): the call arrives at the
\* handler of the node dialed, or it fails before that: the transport
\* fails, or the interceptor of that node rejects the call.
Forward(c) ==
    /\ scall[c].pc = "forward"
    /\ \/ \E d \in 1..MaxSignCalls :
             /\ Free(d)
             /\ scall' = [scall EXCEPT
                   ![c] = [@ EXCEPT !.pc = "waiting", !.child = d],
                   ![d] = [@ EXCEPT !.pc = "start", !.node = scall[c].dialed,
                                    !.parent = c,
                                    !.block = ForwardedRequest(scall[c].block)]]
             /\ UNCHANGED conns
       \/ /\ scall' = [scall EXCEPT ![c] =
                [@ EXCEPT !.pc = "done", !.exit = "forward failed",
                          !.err = "forwarding error"]]
          /\ conns' = conns \ ReleasedOnReturn(c, "forwarding error")
    /\ UNCHANGED leader

\* What the caller of call c receives once the handler has returned: the
\* unaryInterceptor of the node that served the call answers a handler
\* error with an error response and no error (resp, err := handler(ctx,
\* req); if err != nil { resp = &pb.ErrorResponse{...} }; return resp, nil).
Intercepted(c) ==
    IF scall[c].err # "nil"
    THEN [resp |-> [Error |-> scall[c].err], err |-> "nil"]
    ELSE [resp |-> scall[c].resp, err |-> "nil"]

\* The forwarded call has returned: SignBlock returns the response and the
\* error its client call received from the other node; or the transport
\* fails while the call waits.
ReturnForwarded(c) ==
    /\ scall[c].pc = "waiting"
    /\ \/ /\ scall[scall[c].child].pc = "done"
          /\ LET d == Intercepted(scall[c].child)
             IN  /\ scall' = [scall EXCEPT ![c] =
                       [@ EXCEPT !.pc = "done", !.exit = "relayed",
                                 !.resp = d.resp, !.err = d.err]]
                 /\ conns' = conns \ ReleasedOnReturn(c, d.err)
       \/ /\ scall' = [scall EXCEPT ![c] =
                [@ EXCEPT !.pc = "done", !.exit = "forward failed",
                          !.err = "forwarding error"]]
          /\ conns' = conns \ ReleasedOnReturn(c, "forwarding error")
    /\ UNCHANGED leader

\* The election moves the leadership to another node, or to none.
Elect ==
    /\ \E n \in (Nodes \cup {NoNode}) \ {leader} : leader' = n
    /\ UNCHANGED <<scall, conns>>

\* No SignBlock call is going on.
SignIdle ==
    /\ leader = NoNode
    /\ scall = <<>>
    /\ conns = {}

(***************************************************************************)
(* GetBlock.  The call waits until the chain has a block at the height     *)
(* asked for, then reads the block from the store.  The chain grows and    *)
(* the caller's context is cancelled (by the caller, or by the node that   *)
(* shuts down) at any time.  Chain.BlockSoonWaiter and Store.GetRawBlock   *)
(* are not part of this source and are modelled from their contracts.      *)
(***************************************************************************)

\* The height the chain reaches in one run.
MaxHeight == 2

\* GetBlock calls in one run.
MaxGetCalls == 2

VARIABLES
    height,   \* the height of the chain: the blocks 1..height exist
    gcall     \* the GetBlock calls: request, context, position, result

gvars == <<height, gcall>>

\* No error, and the error errors.Wrapf(err, format, ...) makes of err.
NoErr == [msg |-> "", cause |-> "nil"]
Wrapf(cause, msg) == [msg |-> msg, cause |-> cause]

\* The raw block stored at height h, and the nil response.
RawBlock(h) == [Block |-> h]
NoBlock == [Block |-> 0]

\* A call that has not been made.
NewGet ==
    [pc |-> "new", Height |-> 0, cancelled |-> FALSE, waitErr |-> "none",
     readStore |-> FALSE, resp |-> NoBlock, err |-> NoErr]

BlockStart ==
    /\ height = 0
    /\ gcall = [c \in 1..MaxGetCalls |-> NewGet]

\* A peer calls GetBlock for a height: one the chain has, one it will
\* have, or one it does not reach.
GetBlock(c) ==
    /\ c \in 1..MaxGetCalls
    /\ gcall[c].pc = "new"
    /\ \A d \in 1..(c - 1) : gcall[d].pc # "new"
    /\ \E h \in 1..(MaxHeight + 1) :
          gcall' = [gcall EXCEPT ![c] = [@ EXCEPT !.pc = "waiting", !.Height = h]]
    /\ UNCHANGED height

\* The chain commits its next block.
AddBlock ==
    /\ height < MaxHeight
    /\ height' = height + 1
    /\ UNCHANGED gcall

\* The context of a call that has not returned is cancelled.
Cancel(c) ==
    /\ gcall[c].pc \in {"waiting", "read"}
    /\ ~gcall[c].cancelled
    /\ gcall' = [gcall EXCEPT ![c] = [@ EXCEPT !.cancelled = TRUE]]
    /\ UNCHANGED height

\* <-r.Chain.BlockSoonWaiter(ctx, in.Height): what the channel can deliver
\* now: nil once the block exists, the context's error once it is cancelled.
BlockSoonWaiter(c) ==
    (IF height >= gcall[c].Height THEN {"nil"} ELSE {})
        \cup (IF gcall[c].cancelled THEN {"context canceled"} ELSE {})

\* if err != nil { return nil, errors.Wrapf(err, "waiting for block ...") }
\* (slip: the error of the wait is dropped)
AfterWait_ignored(c, err) ==
    [c EXCEPT !.pc = "read", !.waitErr = err]
AfterWait(c, err) ==
    IF err # "nil"
    THEN [c EXCEPT !.pc = "done", !.waitErr = err,
                   !.err = Wrapf(err, "waiting for block at height")]
    ELSE [c EXCEPT !.pc = "read", !.waitErr = err]

\* The wait of a call completes.
WaitCompletes(c) ==
    /\ gcall[c].pc = "waiting"
    /\ \E err \in BlockSoonWaiter(c) :
          gcall' = [gcall EXCEPT ![c] = AfterWait(@, err)]
    /\ UNCHANGED height

\* r.Store.GetRawBlock(ctx, in.Height): the block stored at the height, or
\* an error of the store, when the block does not exist among others.
GetRawBlock(h) ==
    {[Block |-> NoBlock, err |-> Wrapf("store error", "")]}
        \cup (IF h <= height THEN {[Block |-> RawBlock(h), err |-> NoErr]} ELSE {})

\* rawBlock, err := r.Store.GetRawBlock(ctx, in.Height); if err != nil
\* { return nil, err }; return &pb.GetBlockResponse{Block: rawBlock}, nil
ReadBlock(c) ==
    /\ gcall[c].pc = "read"
    /\ \E r \in GetRawBlock(gcall[c].Height) :
          gcall' = [gcall EXCEPT ![c] =
             [@ EXCEPT !.pc = "done", !.readStore = TRUE,
                       !.resp = r.Block, !.err = r.err]]
    /\ UNCHANGED height

\* No GetBlock call is going on.
BlockIdle ==
    /\ height = 0
    /\ gcall = <<>>

(***************************************************************************)
(* The specifications.  Each holds the variables of the other part still.  *)
(***************************************************************************)

vars == <<bvars, lvars, rvars, svars, gvars>>

\* No list traversal is going on.
ListIdle ==
    /\ lop = "none"
    /\ index = {}
    /\ deleted = {}
    /\ lreq = NoRequest
    /\ lresp = NoResponse
    /\ lpc = "idle"
    /\ after = BadCursor
    /\ deadline = FALSE
    /\ calls = <<>>
    /\ seen = <<>>
    /\ pages = <<>>
    /\ start = {}
    /\ req0 = NoRequest
    /\ bound = -1
    /\ waited = FALSE

\* No batch call is going on.
BatchIdle ==
    /\ op = "none"
    /\ requests = <<>>
    /\ responses = <<>>
    /\ wg = 0
    /\ mainpc = "idle"
    /\ loopi = 0
    /\ arg = <<>>
    /\ pc = <<>>
    /\ dstack = <<>>
    /\ panicking = <<>>
    /\ crashed = FALSE
    /\ reterr = "none"
    /\ outcome = <<>>
    /\ writes = {}
    /\ overtaken = FALSE

NextBatch ==
    \/ Alloc /\ UNCHANGED <<lvars, rvars, svars, gvars>>
    \/ Launch /\ UNCHANGED <<lvars, rvars, svars, gvars>>
    \/ \E u \in 1..N : CreateAccountsUnit(u) /\ UNCHANGED <<lvars, rvars, svars, gvars>>
    \/ \E u \in 1..N : CreateAssetsUnit(u) /\ UNCHANGED <<lvars, rvars, svars, gvars>>
    \/ \E u \in 1..N : CreateControlProgramsUnit(u) /\ UNCHANGED <<lvars, rvars, svars, gvars>>
    \/ \E u \in 1..N : UnitDefer(u) /\ UNCHANGED <<lvars, rvars, svars, gvars>>
    \/ Crash /\ UNCHANGED <<lvars, rvars, svars, gvars>>
    \/ Return /\ UNCHANGED <<lvars, rvars, svars, gvars>>

\* A batch call starts; no list traversal is going on.
InitBatch == BatchStart /\ ListIdle /\ RPCIdle /\ SignIdle /\ BlockIdle

SpecBatch == InitBatch /\ [][NextBatch]_vars

NextList ==
    \/ ListAccounts /\ UNCHANGED <<bvars, rvars, svars, gvars>>
    \/ ListAssets /\ UNCHANGED <<bvars, rvars, svars, gvars>>
    \/ ListTxFeeds /\ UNCHANGED <<bvars, rvars, svars, gvars>>
    \/ ListKeys /\ UNCHANGED <<bvars, rvars, svars, gvars>>
    \/ ListUnspentOutputs /\ UNCHANGED <<bvars, rvars, svars, gvars>>
    \/ ListBalances /\ UNCHANGED <<bvars, rvars, svars, gvars>>
    \/ ListTxsBegin /\ UNCHANGED <<bvars, rvars, svars, gvars>>
    \/ ListTxsQuery /\ UNCHANGED <<bvars, rvars, svars, gvars>>
    \/ Extend /\ UNCHANGED <<bvars, rvars, svars, gvars>>
    \/ DeleteKey /\ UNCHANGED <<bvars, rvars, svars, gvars>>

\* A traversal starts; no batch call is going on.
InitList == ListStart /\ BatchIdle /\ RPCIdle /\ SignIdle /\ BlockIdle

SpecList == InitList /\ [][NextList]_vars

NextRPC ==
    \/ \E c \in 1..MaxCalls : Receive(c) /\ UNCHANGED <<bvars, lvars, svars, gvars>>
    \/ \E c \in 1..MaxCalls : InterceptLimit(c) /\ UNCHANGED <<bvars, lvars, svars, gvars>>
    \/ \E c \in 1..MaxCalls : InterceptAuth(c) /\ UNCHANGED <<bvars, lvars, svars, gvars>>
    \/ \E c \in 1..MaxCalls : InterceptHandler(c) /\ UNCHANGED <<bvars, lvars, svars, gvars>>
    \/ \E p \in Peers : Refill(p) /\ UNCHANGED <<bvars, lvars, svars, gvars>>

\* The gateway starts serving; no batch call and no traversal is going on.
InitRPC == RPCStart /\ BatchIdle /\ ListIdle /\ SignIdle /\ BlockIdle

SpecRPC == InitRPC /\ [][NextRPC]_vars

\* The calls up to the return of r.limit: a call rejected there has
\* returned, one that passed stands before authRPC.  The steps that follow
\* in the interceptor (authRPC, the handler) neither read nor write the
\* limiter; SpecRPC has them.
NextLimit ==
    \/ \E c \in 1..MaxLimitCalls : Receive(c) /\ UNCHANGED <<bvars, lvars, svars, gvars>>
    \/ \E c \in 1..MaxLimitCalls : InterceptLimit(c) /\ UNCHANGED <<bvars, lvars, svars, gvars>>
    \/ \E p \in Peers : Refill(p) /\ UNCHANGED <<bvars, lvars, svars, gvars>>

InitLimit == LimitStart /\ BatchIdle /\ ListIdle /\ SignIdle /\ BlockIdle

SpecLimit == InitLimit /\ [][NextLimit]_vars

NextSign ==
    \/ \E c \in 1..MaxSignCalls : SignCall(c) /\ UNCHANGED <<bvars, lvars, rvars, gvars>>
    \/ \E c \in 1..MaxSignCalls : CheckLeading(c) /\ UNCHANGED <<bvars, lvars, rvars, gvars>>
    \/ \E c \in 1..MaxSignCalls : SignLocal(c) /\ UNCHANGED <<bvars, lvars, rvars, gvars>>
    \/ \E c \in 1..MaxSignCalls : OpenConn(c) /\ UNCHANGED <<bvars, lvars, rvars, gvars>>
    \/ \E c \in 1..MaxSignCalls : Forward(c) /\ UNCHANGED <<bvars, lvars, rvars, gvars>>
    \/ \E c \in 1..MaxSignCalls : ReturnForwarded(c) /\ UNCHANGED <<bvars, lvars, rvars, gvars>>
    \/ Elect /\ UNCHANGED <<bvars, lvars, rvars, gvars>>

\* The nodes serve SignBlock; nothing else is going on.
InitSign == SignStart /\ BatchIdle /\ ListIdle /\ RPCIdle /\ BlockIdle

SpecSign == InitSign /\ [][NextSign]_vars

NextBlock ==
    \/ \E c \in 1..MaxGetCalls : GetBlock(c) /\ UNCHANGED <<bvars, lvars, rvars, svars>>
    \/ AddBlock /\ UNCHANGED <<bvars, lvars, rvars, svars>>
    \/ \E c \in 1..MaxGetCalls : Cancel(c) /\ UNCHANGED <<bvars, lvars, rvars, svars>>
    \/ \E c \in 1..MaxGetCalls : WaitCompletes(c) /\ UNCHANGED <<bvars, lvars, rvars, svars>>
    \/ \E c \in 1..MaxGetCalls : ReadBlock(c) /\ UNCHANGED <<bvars, lvars, rvars, svars>>

\* The node serves GetBlock; nothing else is going on.
InitBlock == BlockStart /\ BatchIdle /\ ListIdle /\ RPCIdle /\ SignIdle

SpecBlock == InitBlock /\ [][NextBlock]_vars

\* The same, with the scheduling of the calls: a wait that can complete
\* does complete (the channel delivers), and the read of the store returns.
FairSpecBlock ==
    /\ SpecBlock
    /\ \A c \in 1..MaxGetCalls :
          /\ WF_vars(WaitCompletes(c) /\ UNCHANGED <<bvars, lvars, rvars, svars>>)
          /\ WF_vars(ReadBlock(c) /\ UNCHANGED <<bvars, lvars, rvars, svars>>)

(***************************************************************************)
(* Properties of the batch handlers.                                       *)
(***************************************************************************)

Guarded == {"CreateAccounts", "CreateAssets"}

Filled(i) == responses[i].kind \in {"ok", "error"}

\* The response the execution of sub-request i, taken alone, leaves in its
\* slot: outcome[i] records how that execution ended.
OwnResult(i) ==
    CASE outcome[i] = "ok" -> SuccessResponse(requests[i])
      [] outcome[i] \in {"badtags", "baddef"} -> ErrorResponse("json")
      [] outcome[i] = "err" -> ErrorResponse("domain")
      [] outcome[i] \in {"panic", "nilreq"} /\ op \in Guarded -> ErrorResponse("panic")
      [] OTHER -> Nil

\* Sub-request k carries a tags or definition document that does not parse.
Malformed(k) ==
    /\ requests[k].present
    /\ \/ requests[k].tags = "malformed"
       \/ op = "CreateAssets" /\ requests[k].definition = "malformed"

\* C1: the response CreateAccounts and CreateAssets return has exactly one
\* slot per sub-request, and every slot holds a success payload or a
\* structured error, whatever the items did (success, error, malformed
\* JSON, panic) and in whatever order the goroutines ran.
C1_NoSlotUnset ==
    (op \in Guarded /\ mainpc = "returned") =>
        /\ Len(responses) = Len(requests)
        /\ \A i \in 1..Len(responses) : Filled(i)

C1_Witness ==
    /\ op \in Guarded
    /\ mainpc = "returned"
    /\ \E i, j, k \in 1..N :
          /\ outcome[i] = "panic"
          /\ outcome[j] = "ok"
          /\ outcome[k] \in {"badtags", "baddef"}

\* C2: batch isolation. When item k of a CreateAccounts or CreateAssets
\* batch has a malformed tags or definition document, or its domain create
\* operation returns an error, slot k of the response is a structured error,
\* every other slot holds the outcome of its own execution, and the call
\* returns a nil error.
C2_BatchIsolation ==
    (op \in Guarded /\ mainpc = "returned") =>
        /\ reterr = "nil"
        /\ \A k \in 1..N :
              (Malformed(k) \/ outcome[k] = "err") =>
                  /\ responses[k].kind = "error"
                  /\ \A j \in 1..N \ {k} : responses[j] = OwnResult(j)

C2_Witness ==
    /\ op \in Guarded
    /\ mainpc = "returned"
    /\ \E k, j \in 1..N :
          /\ Malformed(k)
          /\ responses[k].kind = "error"
          /\ outcome[j] = "ok"
          /\ responses[j] = SuccessResponse(requests[j])

\* C3: in all three batch handlers goroutine i writes only responses[i], so
\* that the returned response holds in slot i what sub-request i produced,
\* for every completion order.
C3_OwnSlotOnly ==
    /\ \A w \in writes : w[1] = w[2]
    /\ mainpc = "returned" =>
          \A i \in 1..N : responses[i] = OwnResult(i)

\* The second goroutine wrote its slot before the first finished its body.
C3_Witness ==
    /\ mainpc = "returned"
    /\ op = "CreateControlPrograms"
    /\ N >= 2
    /\ overtaken
    /\ writes = {<<1, 1>>, <<2, 2>>}
    /\ responses[1].kind = "error"
    /\ responses[2] = SuccessResponse(requests[2])

\* C4: join barrier. A batch handler returns only after every goroutine has
\* run all of its deferred calls, and nothing is written to the response
\* slice after the return; the write of the panic-recovery path happens
\* before that goroutine's wg.Done.
C4_JoinBarrier ==
    /\ [](mainpc = "returned" => \A u \in 1..N : pc[u] \in {"done", "fatal"})
    /\ [][mainpc = "returned" => responses' = responses]_bvars

C4_Witness ==
    /\ mainpc = "returned"
    /\ op \in Guarded
    /\ N >= 2
    /\ \E u \in 1..N :
          /\ outcome[u] = "panic"
          /\ <<u, u>> \in writes
          /\ responses[u] = ErrorResponse("panic")

\* C5: every slot of the response CreateControlPrograms returns holds a
\* control program or a structured error, whatever the type of the
\* sub-request.
C5_ControlProgramSlotSet ==
    (op = "CreateControlPrograms" /\ mainpc = "returned") =>
        \A i \in 1..N : Filled(i)

\* C6: in CreateAccounts and CreateAssets a panic raised while executing
\* item i is recovered inside goroutine i and becomes the structured error
\* of slot i; it never ends the process, and until the call has returned
\* some goroutine or the caller can always take its next step.
C6_PanicRecovered ==
    op \in Guarded =>
        /\ ~crashed
        /\ \A u \in 1..N :
              /\ pc[u] # "fatal"
              /\ (pc[u] = "done" /\ outcome[u] \in {"panic", "nilreq"}) =>
                    responses[u] = ErrorResponse("panic")
        /\ mainpc # "returned" => ENABLED NextBatch

C6_Witness ==
    /\ op = "CreateAssets"
    /\ mainpc = "returned"
    /\ \E u, v \in 1..N :
          /\ outcome[u] = "panic"
          /\ responses[u] = ErrorResponse("panic")
          /\ outcome[v] = "ok"
          /\ responses[v].kind = "ok"

\* C7: in CreateControlPrograms a panic raised while executing item i
\* becomes a structured error in slot i and does not end the process.
C7_ControlProgramPanicIsolated ==
    op = "CreateControlPrograms" =>
        /\ ~crashed
        /\ \A u \in 1..N :
              (pc[u] \in {"done", "fatal"} /\ outcome[u] = "panic") =>
                  responses[u].kind = "error"

(***************************************************************************)
(* Properties of the list handlers.                                        *)
(***************************************************************************)

\* Entity k is one the traversal's first request asks for: it satisfies
\* the filter (or has one of the aliases) and lies in the time range.
InScope(k) ==
    CASE lop = "ListKeys" -> req0.Aliases = {} \/ k \in req0.Aliases
      [] lop = "ListTxFeeds" -> TRUE
      [] lop \in {"ListAccounts", "ListAssets"} ->
            Matches(req0.Filter, protoParams(req0.FilterParams), k)
      [] lop = "ListUnspentOutputs" ->
            /\ Matches(req0.Filter, protoParams(req0.FilterParams), k)
            /\ k <= (IF req0.Timestamp = 0 THEN MaxInt64 ELSE req0.Timestamp)
      [] lop = "ListTxs" ->
            /\ Matches(req0.Filter, protoParams(req0.FilterParams), k)
            /\ k >= req0.StartTime
            /\ k <= (IF req0.EndTime = 0 THEN MaxInt64 ELSE req0.EndTime)

\* The matching entities of the index ix, in the query's order.
MatchingSeq(ix) ==
    LET S == {k \in ix : InScope(k)} IN FirstN(S, Cardinality(S))

SeenSet == {seen[i] : i \in 1..Len(seen)}

\* C8: pagination completeness. While the matching set stays as it was at
\* the start (nothing written, no key deleted), a traversal from an empty cursor that resubmits each Next has
\* returned the matching entities in order without repetition; every page
\* before the last has L entities and LastPage false; when LastPage is true
\* all M entities were visited and the last page has M mod L entities (none
\* when M is a multiple of L).
C8_PaginationComplete ==
    (lop \in ListOps /\ lresp.status = "ok" /\ lpc = "idle" /\ index = start
        /\ deleted = {} /\ req0.After = EmptyStr) =>
        LET all == MatchingSeq(start)
            M == Len(all)
            L == defGenericPageSize
            P == Len(pages)
        IN  /\ Len(seen) <= M
            /\ seen = SubSeq(all, 1, Len(seen))
            /\ \A p \in 1..(P - 1) : pages[p] = L
            /\ IF lresp.LastPage
               THEN /\ seen = all
                    /\ pages[P] = M % L
                    /\ P = (M \div L) + 1
               ELSE pages[P] = L

\* L entities, L entities, then the empty last page.
C8_Witness ==
    /\ lop = "ListUnspentOutputs"
    /\ lresp.status = "ok"
    /\ lresp.LastPage
    /\ index = start
    /\ Len(pages) = 3
    /\ pages[3] = 0
    /\ Len(seen) = 2 * defGenericPageSize

\* C9: with writers extending the index between the calls, the traversal
\* only moves forward and returns no entity twice, and skips no entity that
\* matched when the traversal started: each such entity up to the last one
\* returned has been returned, and all of them once LastPage is true.  (A
\* key that DeleteKey has removed in the meantime is no longer an entity of
\* the index and is not asked for.)
C9_ForwardGapFree ==
    (lop \in ListOps /\ lresp.status = "ok" /\ lpc = "idle"
        /\ req0.After = EmptyStr) =>
        /\ \A i, j \in 1..Len(seen) : i < j => seen[i] < seen[j]
        /\ \A k \in start \ deleted :
              (InScope(k) /\ seen # <<>> /\ k <= seen[Len(seen)]) => k \in SeenSet
        /\ lresp.LastPage => \A k \in start \ deleted : InScope(k) => k \in SeenSet

\* A transaction written after the first page was returned is on a later
\* page.
C9_Witness ==
    /\ lop = "ListTxs"
    /\ lresp.status = "ok"
    /\ lpc = "idle"
    /\ Len(pages) >= 2
    /\ \E i \in 1..Len(seen) : seen[i] \notin start /\ i > pages[1]

\* The index query of each list handler.
QueryOf(o) ==
    CASE o = "ListAccounts" -> "Accounts"
      [] o = "ListAssets" -> "Assets"
      [] o = "ListTxFeeds" -> "TxFeeds"
      [] o = "ListTxs" -> "Transactions"
      [] o = "ListUnspentOutputs" -> "Outputs"
      [] o = "ListKeys" -> "ListKeys"

\* C10: in a successful response of each of the six list handlers LastPage
\* is true exactly when fewer entities than the page size were returned,
\* and the handler made no index call besides its one query (and, in
\* ListTxs without a cursor, the cursor lookup before it).
C10_LastPageFromCount ==
    (lop \in ListOps /\ lresp.status = "ok" /\ lpc = "idle") =>
        /\ lresp.LastPage <=> (Len(lresp.Items) < defGenericPageSize)
        /\ \/ calls = <<QueryOf(lop)>>
           \/ /\ lop = "ListTxs"
              /\ Len(pages) = 1
              /\ calls = <<"LookupTxAfter", "Transactions">>

\* A full first page that is not the last, then a short last page.
C10_Witness ==
    /\ lop = "ListKeys"
    /\ lresp.status = "ok"
    /\ Len(pages) = 2
    /\ pages[1] = defGenericPageSize
    /\ Len(lresp.Items) = 1
    /\ lresp.LastPage
    /\ calls = <<"ListKeys">>

\* The handlers that take an upper time bound, and the bound of a request.
TimeBounded == {"ListTxs", "ListBalances", "ListUnspentOutputs"}
TimeBoundOf(in) == IF lop = "ListTxs" THEN in.EndTime ELSE in.Timestamp

\* A handler call returns a successful response in this step.
Answers == lresp' # lresp /\ lresp'.status = "ok"

\* The cursor string of handler o for the position pos (and, for ListTxs,
\* the position stop at which the scan ends).
CursorOf(o, pos, stop) ==
    CASE o = "ListTxs" -> Str("tx", pos, stop)
      [] o = "ListUnspentOutputs" -> Str("out", pos, 0)
      [] OTHER -> IF pos = 0 THEN EmptyStr ELSE Str("id", pos, 0)

\* C11: in every successful response of the six paginated handlers, Next is
\* the submitted request with After replaced and every other field (filter,
\* parameters, time bounds, tail flag, timeout, aliases) as submitted; the
\* new After is the cursor of the last entity returned, or of the position
\* the call started from when it returned none.
C11_ContinuationFrame ==
    [][(lop \in ListOps /\ Answers) =>
          LET items == lresp'.Items
              from == IF lop = "ListTxs" THEN after.From ELSE lreq.After.a
              stop == IF lop = "ListTxs" THEN after.Stop ELSE 0
              pos == IF items = <<>> THEN from ELSE items[Len(items)]
          IN  /\ \A fld \in DOMAIN lreq \ {"After"} : lresp'.Next[fld] = lreq[fld]
              /\ DOMAIN lresp'.Next = DOMAIN lreq
              /\ lresp'.Next.After = CursorOf(lop, pos, stop)]_vars

\* The second page of a filtered tailing ListTxs query with time bounds and
\* a timeout: Next carries them all, and a cursor that has moved.
C11_Witness ==
    /\ lop = "ListTxs"
    /\ lresp.status = "ok"
    /\ lpc = "idle"
    /\ Len(pages) = 2
    /\ lresp.Next.Filter = "parity"
    /\ lresp.Next.FilterParams = <<FilterParam("int64", 0)>>
    /\ lresp.Next.StartTime = 2
    /\ lresp.Next.EndTime = MaxInt64
    /\ lresp.Next.AscendingWithLongPoll
    /\ lresp.Next.Timeout = "1s"
    /\ lresp.Next.After = Str("tx", 4, MaxInt64)

\* The request in with its upper time bound (EndTime in ListTxs, Timestamp
\* in ListBalances and ListUnspentOutputs) set to t.
WithTimeBound(in, t) ==
    IF lop = "ListTxs" THEN [in EXCEPT !.EndTime = t] ELSE [in EXCEPT !.Timestamp = t]

\* C12, as the claim states it: the response to a request whose upper time
\* bound is unset is the response to the same request with the bound
\* math.MaxInt64.  The two calls pass the same bound and read the same page,
\* and the continuation of the second request has the bound math.MaxInt64:
\* the second response is the first with that bound in Next.
C12_SameResponse ==
    [][(lop \in TimeBounded /\ TimeBoundOf(lreq) = 0 /\ Answers) =>
          lresp' = [lresp' EXCEPT !.Next = WithTimeBound(@, MaxInt64)]]_vars

\* C12, amended: a request whose upper time bound is unset (0) and one whose
\* bound is math.MaxInt64 pass the same bound, math.MaxInt64, to the index,
\* neither is rejected as too large, and the entities (groups) returned are
\* those of the query bounded by math.MaxInt64; the two responses are equal
\* except for the bound in Next, which repeats the bound as the request gave
\* it (0 in the one, math.MaxInt64 in the other).
C12_TimeBoundDefault ==
    /\ []((lop \in TimeBounded /\ TimeBoundOf(req0) \in {0, MaxInt64}) =>
            /\ bound \in {-1, MaxInt64}
            /\ lresp.err \notin {"timestamp is too large",
                                 "end timestamp is too large"}
            /\ (calls # <<>> /\ calls[1] # "Transactions") => bound = MaxInt64)
    /\ [][(lop \in TimeBounded /\ TimeBoundOf(lreq) \in {0, MaxInt64}) =>
            LET vals == protoParams(lreq.FilterParams)
            IN  /\ (lop = "ListUnspentOutputs" /\ Answers) =>
                      lresp'.Items =
                          IndexPage(lreq.Filter, vals, lreq.After.a, MaxInt64,
                                    defGenericPageSize).items
                /\ (lop = "ListBalances" /\ Answers) =>
                      lresp'.Items =
                          Balances(lreq.Filter, vals, lresp'.Next.SumBy, MaxInt64)
                /\ (lop = "ListTxs" /\ lpc = "idle" /\ lpc' = "query"
                        /\ lreq.After = EmptyStr) =>
                      after'.Stop = MaxInt64
                /\ Answers =>
                      /\ TimeBoundOf(lresp'.Next) = TimeBoundOf(lreq)
                      /\ lop # "ListBalances" =>
                            WithTimeBound(lresp'.Next, MaxInt64) =
                                Continuation(WithTimeBound(lreq, MaxInt64),
                                             lresp'.Next.After)]_vars

\* ListUnspentOutputs with the timestamp unset has passed math.MaxInt64 and
\* returned outputs; the continuation has the timestamp unset.
C12_Witness ==
    /\ lop = "ListUnspentOutputs"
    /\ req0.Timestamp = 0
    /\ lresp.status = "ok"
    /\ bound = MaxInt64
    /\ Len(lresp.Items) = defGenericPageSize
    /\ lresp.Next.Timestamp = 0

\* The errors of the caller that the three handlers find themselves.
CallerErrors ==
    {"parsing timeout", "parsing filter", "parsing field",
     "end timestamp is too large", "timestamp is too large", "decoding after"}

\* The request in has one of those faults for handler o.
BadRequest(o, in) ==
    \/ in.Filter = "(("
    \/ /\ o = "ListTxs"
       /\ \/ in.Timeout \notin {"", "0s", "1s"}
          \/ in.EndTime > MaxInt64
          \/ in.After.fmt \notin {"", "tx"}
    \/ /\ o = "ListUnspentOutputs"
       /\ \/ in.Timestamp > MaxInt64
          \/ in.After.fmt \notin {"", "out"}
    \/ /\ o = "ListBalances"
       /\ \/ in.Timestamp > MaxInt64
          \/ \E i \in 1..Len(in.SumBy) :
                in.SumBy[i] \notin {"asset_id", "asset_alias", "account_id"}

\* C13: a call of ListTxs, ListBalances or ListUnspentOutputs with a
\* malformed timeout, filter, grouping field, cursor or an upper time bound
\* beyond math.MaxInt64 returns a caller error; and a call that returned a
\* caller error made no index call, passed no bound and never reached the
\* point of the Transactions call where it can be suspended.
C13_CallerErrorsFirst ==
    lop \in TimeBounded =>
        /\ BadRequest(lop, req0) =>
              /\ lpc = "idle"
              /\ lresp.status \in {"none", "error"}
              /\ lresp.status = "error" => lresp.err \in CallerErrors
        /\ (lresp.status = "error" /\ lresp.err \in CallerErrors /\ lpc = "idle") =>
              /\ calls = <<>>
              /\ bound = -1
              /\ ~waited
              /\ BadRequest(lop, lreq)
        /\ lpc = "query" => ~BadRequest(lop, lreq)

\* ListTxs rejected an end time beyond math.MaxInt64 of a tailing request
\* without a cursor: no LookupTxAfter, no Transactions.
C13_Witness ==
    /\ lop = "ListTxs"
    /\ lresp.status = "error"
    /\ lresp.err = "end timestamp is too large"
    /\ lreq.After = EmptyStr
    /\ lreq.AscendingWithLongPoll
    /\ lreq.EndTime = MaxUint64
    /\ calls = <<>>

\* The request of the ListTxs call that returned last had no cursor.
SubmittedNoCursor ==
    IF lresp.status = "ok"
    THEN Len(pages) = 1 /\ req0.After = EmptyStr
    ELSE lreq.After = EmptyStr

\* C14: ListTxs resolves its starting cursor on exactly one path. With a
\* cursor in the request, the decoded cursor is used and LookupTxAfter is
\* not called; with none, LookupTxAfter is called once with the request's
\* start time and the effective end bound and its result is used; the
\* Transactions call comes only after that, and last.
C14_CursorResolution ==
    lop = "ListTxs" =>
        /\ lpc = "query" =>
              /\ after.ok
              /\ IF lreq.After # EmptyStr
                 THEN /\ after = TxAfter(lreq.After.a, lreq.After.b)
                      /\ lreq.After.fmt = "tx"
                      /\ calls = <<>>
                 ELSE /\ after = LookupTxAfter(lreq.StartTime,
                                    IF lreq.EndTime = 0 THEN MaxInt64
                                    ELSE lreq.EndTime)
                      /\ calls = <<"LookupTxAfter">>
        /\ (lpc = "idle" /\ lresp.status # "none") =>
              /\ calls \in {<<>>, <<"LookupTxAfter">>, <<"Transactions">>,
                            <<"LookupTxAfter", "Transactions">>}
              /\ (calls # <<>> /\ calls[1] = "LookupTxAfter") <=>
                    (SubmittedNoCursor /\ lresp.err \notin CallerErrors)
              /\ lresp.err = "decoding after" => lreq.After # EmptyStr

\* Both paths in one traversal: the first call looked the cursor up, the
\* second used the cursor of the continuation.
C14_Witness ==
    /\ lop = "ListTxs"
    /\ req0.After = EmptyStr
    /\ req0.StartTime = 2
    /\ lpc = "query"
    /\ Len(pages) = 1
    /\ calls = <<>>
    /\ after = TxAfter(3, MaxInt64)

\* C15: ListBalances with no grouping fields returns what the same query
\* grouped by asset_alias, asset_id returns, and that is one group per
\* asset identifier: the groups and their sums are those of the query
\* grouped by asset_id alone.
C15_DefaultGrouping ==
    [][(lop = "ListBalances" /\ Answers /\ lreq.SumBy = <<>>) =>
          LET vals == protoParams(lreq.FilterParams)
              ts == IF lreq.Timestamp = 0 THEN MaxInt64 ELSE lreq.Timestamp
              items == lresp'.Items
              byId == BalanceGroups(lreq.Filter, vals, <<"asset_id">>, ts)
          IN  /\ items = Balances(lreq.Filter, vals,
                                  <<"asset_alias", "asset_id">>, ts)
              /\ lresp'.Next.SumBy = <<"asset_alias", "asset_id">>
              /\ lresp'.LastPage
              /\ Len(items) = Cardinality(byId)
              /\ \A g \in byId : \E i \in 1..Len(items) :
                    /\ items[i].amount = SumAmounts(g)
                    /\ \A k \in g : <<"asset_id", AssetId(k)>> \in
                          {items[i].sum_by[j] : j \in 1..Len(items[i].sum_by)}]_vars

\* A request without grouping fields was answered with the balances of two
\* assets.
C15_Witness ==
    /\ lop = "ListBalances"
    /\ req0.SumBy = <<>>
    /\ lresp.status = "ok"
    /\ Len(lresp.Items) = 2
    /\ lresp.Items[1].sum_by[2][1] = "asset_id"

\* C16: a tailing ListTxs call never returns an empty successful page: while
\* no transaction of the query lies after the cursor it can only end with
\* an error (its timeout, the caller's cancellation), and once one is
\* committed it returns it; what it returns lies after the cursor and was
\* on no earlier page, so a continuation never returns it again.
C16_TailingWait ==
    /\ []((lop = "ListTxs" /\ req0.AscendingWithLongPoll /\ lresp.status = "ok") =>
            /\ lresp.Items # <<>>
            /\ \A i, j \in 1..Len(seen) : i < j => seen[i] # seen[j])
    /\ [][(lop = "ListTxs" /\ lreq.AscendingWithLongPoll /\ lpc = "query"
              /\ lpc' = "idle") =>
            /\ NoneToReturn(lreq, after) => lresp'.status = "error"
            /\ lresp'.status = "ok" =>
                  \A i \in 1..Len(lresp'.Items) :
                      /\ lresp'.Items[i] \in index
                      /\ lresp'.Items[i] > after.From
                      /\ lresp'.Items[i] \notin SeenSet]_vars

\* A tailing call that found nothing when it reached the index has returned
\* a transaction committed after the traversal started.
C16_Witness ==
    /\ lop = "ListTxs"
    /\ lreq.AscendingWithLongPoll
    /\ waited
    /\ lpc = "idle"
    /\ lresp.status = "ok"
    /\ Len(pages) = 2
    /\ lresp.Items # <<>>
    /\ \A i \in 1..Len(lresp.Items) : lresp.Items[i] \notin start

(***************************************************************************)
(* Properties of the RPC gateway.                                          *)
(***************************************************************************)

\* The calls that have arrived.
Arrived == {c \in DOMAIN rcall : rcall[c].pc # "new"}

\* The steps of call c, by kind.
StepsOf(c, kinds) == {i \in 1..Len(rcall[c].steps) : rcall[c].steps[i] \in kinds}
LimitSteps == {"limit: pass", "limit: reject"}
AuthSteps == {"auth: pass", "auth: reject"}
HandlerSteps == {"handler: ok", "handler: error"}

\* C17: in every call the rate-limit check comes first and once, then
\* authentication, then the handler: authentication is attempted only after
\* the check passed, and the handler runs only after the check passed and
\* authentication succeeded (so only for valid credentials of a known
\* peer).
C17_InterceptorOrder ==
    \A c \in Arrived :
        LET st == rcall[c].steps
        IN  /\ Len(st) <= 3
            /\ StepsOf(c, LimitSteps) \subseteq {1}
            /\ StepsOf(c, AuthSteps) \subseteq {2}
            /\ StepsOf(c, HandlerSteps) \subseteq {3}
            /\ Len(st) >= 2 => st[1] = "limit: pass"
            /\ Len(st) >= 3 => st[2] = "auth: pass"
            /\ StepsOf(c, HandlerSteps) # {} =>
                  rcall[c].creds = "good" /\ rcall[c].peer \in Peers
            /\ rcall[c].pc = "done" <=>
                  (st # <<>> /\ st[Len(st)] \in {"limit: reject", "auth: reject",
                                                "handler: ok", "handler: error"})

\* One call went through all three steps, another one was stopped by the
\* rate limit of the same peer.
C17_Witness ==
    \E c, d \in Arrived :
        /\ rcall[c].steps = <<"limit: pass", "auth: pass", "handler: error">>
        /\ rcall[d].steps = <<"limit: reject">>
        /\ rcall[d].peer = rcall[c].peer

\* C18: a call whose context carries no peer is rejected by limit with
\* errRateLimited: no bucket is asked or changed, authRPC and the handler
\* do not run.
C18_FailClosed ==
    /\ [](\A c \in Arrived :
            (rcall[c].peer = NoPeer /\ rcall[c].pc # "received") =>
                /\ rcall[c].pc = "done"
                /\ rcall[c].err = "errRateLimited"
                /\ rcall[c].resp = "nil"
                /\ rcall[c].steps = <<"limit: reject">>
                /\ rcall[c].consulted = {})
    /\ [][\A c \in DOMAIN rcall :
            (rcall[c].pc = "received" /\ rcall[c].peer = NoPeer
                /\ rcall'[c].pc # "received") =>
                tokens' = tokens /\ tokenMap' = tokenMap]_vars

\* A call without a peer was rejected while every bucket was still full,
\* and with credentials that are valid.
C18_Witness ==
    \E c \in Arrived :
        /\ rcall[c].peer = NoPeer
        /\ rcall[c].creds = "good"
        /\ rcall[c].pc = "done"
        /\ rcall[c].err = "errRateLimited"
        /\ \A p \in Peers : tokens[p] = BucketCapacity

\* C19: when the handler returns an error the interceptor returns an
\* ErrorResponse and a nil error; when it succeeds the interceptor returns
\* the handler's response and a nil error.
C19_ErrorTranslation ==
    \A c \in Arrived :
        /\ "handler: error" \in {rcall[c].steps[i] : i \in 1..Len(rcall[c].steps)} =>
              /\ rcall[c].pc = "done"
              /\ rcall[c].resp = "ErrorResponse"
              /\ rcall[c].err = "nil"
        /\ "handler: ok" \in {rcall[c].steps[i] : i \in 1..Len(rcall[c].steps)} =>
              /\ rcall[c].pc = "done"
              /\ rcall[c].resp = rcall[c].method
              /\ rcall[c].method \in Methods
              /\ rcall[c].err = "nil"

\* A failed SignBlock and a successful GetBlockHeight.
C19_Witness ==
    \E c, d \in Arrived :
        /\ rcall[c].method = "SignBlock"
        /\ rcall[c].steps[3] = "handler: error"
        /\ rcall[c].resp = "ErrorResponse"
        /\ rcall[d].method = "GetBlockHeight"
        /\ rcall[d].resp = "GetBlockHeight"

\* C20: every completed call returns a response and a nil error, also a
\* call that was rate-limited, had no peer or was not authenticated.
C20_ErrorsAreData ==
    \A c \in Arrived :
        rcall[c].pc = "done" => (rcall[c].err = "nil" /\ rcall[c].resp # "nil")

\* The calls of peer p that the rate-limit check has passed, and rejected.
Passed(p) == {c \in Arrived : rcall[c].peer = p /\ "limit: pass" \in
                 {rcall[c].steps[i] : i \in 1..Len(rcall[c].steps)}}
Rejected(p) == {c \in Arrived : rcall[c].peer = p /\ "limit: reject" \in
                 {rcall[c].steps[i] : i \in 1..Len(rcall[c].steps)}}

\* C21: while the bucket of a peer address has not been refilled, the
\* check has passed at most BucketCapacity of its calls, each taking one
\* token of its own bucket and none of another, and it rejects a call of
\* the peer (with errRateLimited) only when BucketCapacity of them have
\* passed: of N+1 calls the first N pass and the next one is rejected,
\* whatever the calls of other peers do.
C21_RateLimit ==
    \A p \in Peers :
        /\ p \notin refilled =>
              /\ Cardinality(Passed(p)) = BucketCapacity - tokens[p]
              /\ Cardinality(Passed(p)) <= BucketCapacity
              /\ Rejected(p) # {} => Cardinality(Passed(p)) = BucketCapacity
        /\ \A c \in Passed(p) \cup Rejected(p) : rcall[c].consulted = {p}
        /\ \A c \in Rejected(p) :
              rcall[c].pc = "done" /\ rcall[c].err = "errRateLimited"

\* Without a refill, the calls of two peers arriving in turn: of each peer
\* BucketCapacity calls have passed, each taking a token of the peer's own
\* bucket, and the next call of each has been rejected.
C21_Witness ==
    \E p, q \in Peers :
        /\ p # q
        /\ refilled = {}
        /\ Cardinality(Passed(p)) = BucketCapacity /\ tokens[p] = 0
        /\ Cardinality(Passed(q)) = BucketCapacity /\ tokens[q] = 0
        /\ \E c \in Passed(p), d \in Passed(q), e \in Rejected(p), f \in Rejected(q) :
              c < d /\ d < e /\ e < f


(***************************************************************************)
(* SignBlock: delegation to the leader.                                    *)
(***************************************************************************)

\* The SignBlock calls that have been made.
SignArrived == {c \in 1..MaxSignCalls : scall[c].pc # "new"}

\* The connections call c holds open.
ConnsOf(c) == {x \in conns : x[1] = c}

\* The call of the client from which call c descends.
RECURSIVE RootOf(_)
RootOf(c) == IF scall[c].parent = 0 THEN c ELSE RootOf(scall[c].parent)

\* C22: SignBlock reads the leadership flag once, at its start.  A call that
\* saw the node leading never dials and never forwards: it decodes the block
\* and signs it, or fails on bytes that are no block.  A call that saw the
\* node not leading never runs the local signer; the call it forwards
\* arrives at the node it dialed with the same block, and when that call
\* returns, what the other node answered (the response of its handler, or
\* the error response its interceptor made of the handler's error) is
\* returned unchanged, so that the caller receives what a caller of the
\* other node receives; otherwise the call fails with the connection or
\* forwarding error.
C22_LeaderDelegation ==
    \A c \in SignArrived :
        LET s == scall[c]
        IN  /\ s.reads <= 1
            /\ s.pc # "start" <=> s.reads = 1
            /\ s.signed => s.saw = "leading" /\ s.block = "block"
            /\ s.saw = "leading" =>
                  /\ s.dialed = NoNode /\ s.child = 0 /\ ConnsOf(c) = {}
                  /\ s.pc \in {"local", "done"}
                  /\ s.pc = "done" =>
                        /\ s.exit = "local"
                        /\ s.signed <=> s.block = "block"
                        /\ ~s.signed => s.err = "bad block" /\ s.resp = NoSignature
                        /\ s.err = "nil" <=> s.resp = Signature(s.block)
            /\ s.saw = "not leading" =>
                  /\ ~s.signed
                  /\ s.pc \in {"delegate", "forward", "waiting", "done"}
                  /\ s.child # 0 =>
                        /\ s.dialed # NoNode
                        /\ scall[s.child].parent = c
                        /\ scall[s.child].node = s.dialed
                        /\ scall[s.child].block = s.block
                  /\ s.pc = "done" =>
                        s.exit \in {"relayed", "dial failed", "forward failed"}
                  /\ s.exit = "relayed" =>
                        /\ s.child # 0
                        /\ scall[s.child].pc = "done"
                        /\ s.resp = Intercepted(s.child).resp
                        /\ s.err = Intercepted(s.child).err
                        /\ Intercepted(c) = Intercepted(s.child)
                  /\ s.exit = "dial failed" =>
                        s.err = "leader connection" /\ s.resp = NoSignature /\ s.child = 0
                  /\ s.exit = "forward failed" =>
                        s.err = "forwarding error" /\ s.resp = NoSignature

\* A call made on a node that is not leading has returned the signature the
\* leader made for the block it was given.
C22_Witness ==
    \E c \in SignArrived :
        /\ scall[c].parent = 0
        /\ scall[c].exit = "relayed"
        /\ scall[c].err = "nil"
        /\ scall[c].resp = Signature("block")
        /\ scall[scall[c].child].signed
        /\ scall[scall[c].child].node # scall[c].node

\* C23: the local signer never runs on a node that is not the leader at
\* that moment, and never runs on two nodes for one call of a client.
C23_SignsOnlyOnLeader ==
    /\ \A c \in SignArrived : scall[c].signed => scall[c].signedAsLeader
    /\ \A c, d \in SignArrived :
          (scall[c].signed /\ scall[d].signed /\ RootOf(c) = RootOf(d)) => c = d

\* C24: a connection is open only for the call that opened it, to the node
\* that call dialed, and only while that call is forwarding; once a call
\* has returned, by whichever path, no connection of it is open.
C24_ConnectionReleased ==
    /\ \A x \in conns :
          /\ x[1] \in SignArrived
          /\ scall[x[1]].pc \in {"forward", "waiting"}
          /\ x[2] = scall[x[1]].dialed
    /\ \A c \in SignArrived :
          /\ Cardinality(ConnsOf(c)) <= 1
          /\ scall[c].pc \in {"forward", "waiting"} => ConnsOf(c) # {}
          /\ scall[c].pc = "done" => ConnsOf(c) = {}

\* A call that had opened a connection has returned with an error, and no
\* connection is open.
C24_Witness ==
    \E c \in SignArrived :
        /\ scall[c].pc = "done"
        /\ scall[c].dialed # NoNode
        /\ scall[c].err # "nil"
        /\ conns = {}


(***************************************************************************)
(* GetBlock: the block-soon wait.                                          *)
(***************************************************************************)

\* The GetBlock calls that have been made.
GetArrived == {c \in 1..MaxGetCalls : gcall[c].pc # "new"}

\* What holds of a GetBlock call at every moment.
GetBlockSafe(c) ==
    LET g == gcall[c]
    IN  /\ g.pc = "waiting" <=> g.waitErr = "none"
        /\ g.readStore => g.waitErr = "nil" /\ g.Height <= height /\ g.pc = "done"
        /\ g.pc = "read" => g.waitErr = "nil" /\ g.Height <= height
        /\ g.resp # NoBlock =>
              g.readStore /\ g.resp = RawBlock(g.Height) /\ g.err = NoErr
        /\ g.waitErr \notin {"none", "nil"} =>
              /\ g.pc = "done"
              /\ ~g.readStore
              /\ g.resp = NoBlock
              /\ g.err = Wrapf(g.waitErr, "waiting for block at height")
              /\ g.cancelled
        /\ g.pc = "done" => g.resp # NoBlock \/ g.err # NoErr

\* C25: GetBlock reads the store, and returns a block, only after the wait
\* for the height has completed without error; when the wait completes
\* with an error the call fails with that error, wrapped as a wait error,
\* and has not read the store; and a call that waits while the block
\* exists, or while its context is cancelled, returns.
C25_BlockSoonWait ==
    /\ [](\A c \in GetArrived : GetBlockSafe(c))
    /\ \A c \in 1..MaxGetCalls :
          (gcall[c].pc = "waiting" /\ (height >= gcall[c].Height \/ gcall[c].cancelled))
              ~> (gcall[c].pc = "done")

\* One call has returned the block at the height it asked for; another,
\* cancelled while it waited for a block the chain does not have, has
\* failed with the wait error.
C25_Witness ==
    \E c, d \in GetArrived :
        /\ gcall[c].pc = "done" /\ gcall[c].resp = RawBlock(gcall[c].Height)
        /\ gcall[c].Height = MaxHeight
        /\ gcall[d].pc = "done" /\ gcall[d].Height > height
        /\ gcall[d].err = Wrapf("context canceled", "waiting for block at height")


(***************************************************************************)
(* Termination of the batch handlers.                                      *)
(***************************************************************************)

\* The goroutines that have run their deferred wg.Done.
Signalled ==
    {u \in 1..N : /\ pc[u] # "idle"
                  /\ \A k \in 1..Len(dstack[u]) : dstack[u][k] # "wg.Done"}

\* C26: a batch call terminates.  The counter of the barrier is the number
\* of requests less the goroutines that have signalled, each of which
\* signals once, on whichever path it ends; as long as the call has not
\* returned some step of it can be taken; and a call with no requests can
\* return at once, with an empty slice.
C26_BatchTerminates ==
    /\ mainpc # "start" => wg = N - Cardinality(Signalled)
    /\ \A u \in 1..N : pc[u] \in {"done", "fatal"} => u \in Signalled
    /\ mainpc # "returned" => ENABLED NextBatch
    /\ (N = 0 /\ mainpc = "loop") => ENABLED Return
    /\ (N = 0 /\ mainpc = "returned") => responses = <<>>

====
